---- MODULE Spec2Model ----
(***************************************************************************)
(* State-machine model of the Snippet node of the intel_cpu plugin         *)
(* (src/plugins/intel_cpu/src/nodes/subgraph.cpp): shape normalisation,    *)
(* execution-domain optimisation, offset planning and parallel dispatch.   *)
(*                                                                         *)
(* The node has NumInputs planar FP32 inputs and one output whose shape is *)
(* the broadcast of the inputs.  Shapes are sequences of extents, indexed  *)
(* from 1 (the source indexes from 0).                                     *)
(***************************************************************************)
EXTENDS Integers, Sequences, FiniteSets, Bags, TLC

(***************************************************************************)
(* Bounds of the model.                                                    *)
(***************************************************************************)
MaxDim == 2          \* outer extents range over 1..MaxDim
MaxRank == 3         \* operand ranks range over 1..MaxRank (plus the wide shapes)
MaxThreads == 3      \* thread counts range over 1..MaxThreads

(***************************************************************************)
(* Program constants.                                                      *)
(***************************************************************************)
rank6D == 6
maxTileRank == 2
minimalJitWorkAmount == 256
SNIPPETS_MAX_HARNESS_DIMS == 5
FP32Size == 4
NumInputs == 2
isa_num_lanes == 8    \* lanes of the host ISA (avx2, FP32)
Dyn == -1            \* ov::Dimension::dynamic()

Max(a, b) == IF a >= b THEN a ELSE b
Min(a, b) == IF a <= b THEN a ELSE b

RECURSIVE Product(_)
Product(s) == IF s = <<>> THEN 1 ELSE Head(s) * Product(Tail(s))

\* the sequence s, and the sequence of sequences ss, written out as tuples
\* (the same values; their elements are computed once)
Tuple(s) == s \o <<>>

Tuples(ss) == Tuple([i \in 1..Len(ss) |-> Tuple(ss[i])])

\* std::vector::resize(n, fill): keeps the first n elements, appends fill.
Resize(v, n, fill) == Tuple([i \in 1..n |-> IF i <= Len(v) THEN v[i] ELSE fill])

IsStatic(shape) == \A i \in 1..Len(shape) : shape[i] # Dyn

(***************************************************************************)
(* Input shapes of the model.                                              *)
(***************************************************************************)
OuterVals == 1..MaxDim
InnerVals == (1..MaxDim) \cup {minimalJitWorkAmount}

ShapesOfRank(r) ==
    {s \in [1..r -> OuterVals \cup InnerVals] :
        \A i \in 1..(r - 1) : s[i] \in OuterVals}

\* a shape of rank rank6D + 1: one leading extent, 1s, and a rank-2 tail
WideShape(h, s) == <<h>> \o [i \in 1..(rank6D - Len(s)) |-> 1] \o s

WideShapes == {WideShape(h, s) : h \in OuterVals, s \in ShapesOfRank(2)}

ShapeSet == (UNION {ShapesOfRank(r) : r \in 1..MaxRank}) \cup WideShapes

\* mutant: the 1s are appended after the extents instead of before them
PrependWithOnesRight(dims, rank) ==
    IF rank <= Len(dims)
    THEN dims
    ELSE [i \in 1..rank |-> IF i <= Len(dims) THEN dims[i] ELSE 1]

(***************************************************************************)
(* Snippet::prependWithOnes                                                *)
(***************************************************************************)
PrependWithOnes(dims, rank) ==
    IF rank <= Len(dims)
    THEN dims
    ELSE Tuple([i \in 1..rank |->
                  IF i <= rank - Len(dims) THEN 1 ELSE dims[i - (rank - Len(dims))]])

(***************************************************************************)
(* Broadcast merge (ov::PartialShape::broadcast_merge_into, NUMPY rule) and*)
(* ngraph::snippets::op::Subgraph::canonicalize.                           *)
(***************************************************************************)
DimAt(s, rank, i) == IF i <= rank - Len(s) THEN 1 ELSE s[i - (rank - Len(s))]

BroadcastMergeDimOk(d1, d2) == d1 = 1 \/ d2 = 1 \/ d1 = d2 \/ d1 = Dyn \/ d2 = Dyn

BroadcastMergeDim(d1, d2) ==
    IF d1 = 1 THEN d2
    ELSE IF d2 = 1 THEN d1
    ELSE IF d1 = Dyn THEN d2
    ELSE d1

\* [ok, shape]: ok is FALSE when the merge fails (ShapeError)
BroadcastMergeInto(dst, src) ==
    LET r == Max(Len(dst), Len(src)) IN
    [ok    |-> \A i \in 1..r : BroadcastMergeDimOk(DimAt(dst, r, i), DimAt(src, r, i)),
     shape |-> Tuple([i \in 1..r |->
                        BroadcastMergeDim(DimAt(dst, r, i), DimAt(src, r, i))])]

RECURSIVE MergeAll(_, _)
MergeAll(acc, shapes) ==
    IF shapes = <<>> \/ ~acc.ok
    THEN acc
    ELSE MergeAll(BroadcastMergeInto(acc.shape, Head(shapes)), Tail(shapes))

\* [ok, master, params, results]: the master shape, and the body's parameter
\* and result shapes broadcast to the master rank
Canonicalize(inShapes) ==
    LET m == MergeAll([ok |-> TRUE, shape |-> <<1>>], inShapes) IN
    [ok      |-> m.ok,
     master  |-> m.shape,
     params  |-> Tuples([i \in 1..Len(inShapes) |->
                    [j \in 1..Len(m.shape) |-> DimAt(inShapes[i], Len(m.shape), j)]]),
     results |-> <<m.shape>>]

(***************************************************************************)
(* Snippet::optimizeExecDomain                                             *)
(***************************************************************************)
\* mutant: the folded extents are dropped instead of multiplied (line 264)
CollapseLastDimsNoMultiply(dims, dimsToCollapse) ==
    [i \in 1..Len(dims) |->
        IF i = Len(dims) THEN dims[i]
        ELSE IF i > dimsToCollapse THEN dims[i - dimsToCollapse]
        ELSE 1]

\* collapseLastDims(dims, dimsToCollapse); the caller passes dimsToCollapse
\* < Len(dims) - 1 (the lambda throws otherwise)
CollapseLastDims(dims, dimsToCollapse) ==
    LET L == Len(dims) IN
    Tuple([i \in 1..L |->
              IF i = L
              THEN dims[L] * Product(SubSeq(dims, L - dimsToCollapse, L - 1))
              ELSE IF i > dimsToCollapse
              THEN dims[i - dimsToCollapse]
              ELSE 1])

\* mutant: only the first of the two patterns of lines 286-287 is tested
BlocksCollapseOneSided(shape) ==
    LET last == Len(shape) IN
    shape[last - 1] # 1 /\ shape[last] = 1

\* the test of lines 286-287 on one input shape: it has extent 1 on exactly
\* one of its two trailing dimensions
BlocksCollapse(shape) ==
    LET last == Len(shape) IN
    \/ (shape[last - 1] # 1 /\ shape[last] = 1)
    \/ (shape[last - 1] = 1 /\ shape[last] # 1)

CanCollapse(inShapes) == \A i \in 1..Len(inShapes) : ~BlocksCollapse(inShapes[i])

\* the loop condition of line 279
LoopGuard(current, full) == current < minimalJitWorkAmount /\ current < full

\* mutant: the floor is compared off by one
KeepsConcurrencyOffByOne(full, nextJitWorkAmount, minimalConcurrency) ==
    full \div nextJitWorkAmount >= minimalConcurrency - 1

\* the parallelism test of line 294
KeepsConcurrency(full, nextJitWorkAmount, minimalConcurrency) ==
    full \div nextJitWorkAmount >= minimalConcurrency

\* fullWorkAmount of line 409
FullWorkAmount(shape) == Product(shape)

(***************************************************************************)
(* Snippet::calcJITParams                                                  *)
(***************************************************************************)
\* bmask of lines 186-192 for one operand shape
BroadcastMask(masterDims, ps) == masterDims[Len(masterDims)] # 1 /\ ps[Len(ps)] = 1

\* the product k of line 209/213 when off[i] is written: dims[i+1..last]
InnerProduct(dims, i) == Product(SubSeq(dims, i + 1, Len(dims)))

\* mutant: k is multiplied by dims[i] before off[i] is written
OffsetCalculationOwnDim(dims, masterDims) ==
    [i \in 1..(Len(masterDims) - 1) |->
        IF dims[i] = masterDims[i] THEN InnerProduct(dims, i - 1) ELSE 0]

\* offset_calculation of lines 208-215: the offset_rank entries of one operand
OffsetCalculation(dims, masterDims) ==
    Tuple([i \in 1..(Len(masterDims) - 1) |->
              IF dims[i] = masterDims[i] THEN InnerProduct(dims, i) ELSE 0])

\* lines 222-227: the entry of dimension d is zeroed where the master is 1
ZeroOut(off, masterDims) ==
    LET offset_rank == Len(masterDims) - 1 IN
    Tuple([j \in 1..Len(off) |->
              IF masterDims[((j - 1) % offset_rank) + 1] = 1 THEN 0 ELSE off[j]])

\* mutant: entries of dimensions that differ from the master are not written
\* and keep what the table held
DataOffsetsKeepStale(prev, operands, masterDims) ==
    LET offset_rank == Len(masterDims) - 1
        resized     == Resize(prev, Len(operands) * offset_rank, 1)
        written     == [j \in 1..Len(resized) |->
                          LET dims == operands[((j - 1) \div offset_rank) + 1]
                              i    == ((j - 1) % offset_rank) + 1
                          IN  IF dims[i] = masterDims[i]
                              THEN InnerProduct(dims, i) ELSE resized[j]]
        zeroed      == ZeroOut(written, masterDims)
    IN  [j \in 1..Len(zeroed) |-> zeroed[j] * FP32Size]

\* lines 206-229: resize, write every operand's entries, zero out, scale
DataOffsets(prev, operands, masterDims) ==
    LET offset_rank == Len(masterDims) - 1
        numParams   == Len(operands)
        resized     == Resize(prev, numParams * offset_rank, 1)
        calculated  == [p \in 1..numParams |->
                           OffsetCalculation(operands[p], masterDims)]
        written     == Tuple([j \in 1..Len(resized) |->
                                 calculated[((j - 1) \div offset_rank) + 1]
                                           [((j - 1) % offset_rank) + 1]])
        zeroed      == ZeroOut(written, masterDims)
    IN  Tuple([j \in 1..Len(zeroed) |-> zeroed[j] * FP32Size])

\* mutant: the broadcast mask is not consulted (line 243)
InputSchedulerOffsetNoMask(off, inShape, masterDims, bm) ==
    LET n == Len(inShape)
        m == Len(masterDims) IN
    IF off > FP32Size THEN 0
    ELSE IF off = FP32Size THEN FP32Size
    ELSE IF inShape[n - 1] # masterDims[m - 1] /\ inShape[n] # 1
         THEN (0 - 1) * masterDims[m] * FP32Size
    ELSE 0

\* lines 236-249: the scheduler offset of input i
InputSchedulerOffset(off, inShape, masterDims, bm) ==
    LET n == Len(inShape)
        m == Len(masterDims) IN
    IF off > FP32Size THEN 0
    ELSE IF off = FP32Size THEN (IF bm THEN FP32Size ELSE 0)
    ELSE IF inShape[n - 1] # masterDims[m - 1] /\ inShape[n] # 1
         THEN (0 - 1) * masterDims[m] * FP32Size
    ELSE 0

\* lines 251-254: the scheduler offset of an output
OutputSchedulerOffset(off, masterDims) == off - masterDims[Len(masterDims)] * FP32Size

\* lines 231-255
SchedulerOffsets(offsets, inShapes, outShapes, masterDims, tRank, bmask) ==
    LET offset_rank == Len(masterDims) - 1
        numInputs   == Len(inShapes)
        numParams   == numInputs + Len(outShapes) IN
    [i \in 1..numParams |->
        IF tRank > 1
        THEN IF i <= numInputs
             THEN InputSchedulerOffset(offsets[i * offset_rank], inShapes[i],
                                       masterDims, bmask[i])
             ELSE OutputSchedulerOffset(offsets[i * offset_rank], masterDims)
        ELSE 0]

\* lines 195-203
VectorTileInc(bmask, lanes) ==
    [i \in 1..Len(bmask) |-> IF bmask[i] THEN 0 ELSE lanes * FP32Size]

ScalarTileInc(bmask) ==
    [i \in 1..Len(bmask) |-> IF bmask[i] THEN 0 ELSE FP32Size]

(***************************************************************************)
(* Parallel primitives (ie_parallel.hpp): splitter, parallel_for5d and     *)
(* parallel_nt, and the index computation of Snippet::schedule_nt.         *)
(***************************************************************************)
\* splitter(n, team, tid, start, end): even split, remainder to low threads
Splitter(n, team, tid) ==
    IF team <= 1 \/ n = 0
    THEN [start |-> 0, end |-> n]
    ELSE LET n1 == (n + team - 1) \div team
             n2 == n1 - 1
             T1 == n - n2 * team
             st == IF tid <= T1 THEN tid * n1 ELSE T1 * n1 + (tid - T1) * n2
         IN  [start |-> st, end |-> st + (IF tid < T1 THEN n1 ELSE n2)]

\* parallel_it_init / parallel_it_step: the coordinate of linear index iwork
\* in the row-major enumeration of D0 x ... x D4
For5dIndexes(iwork, D) ==
    [j \in 1..Len(D) |-> (iwork \div Product(SubSeq(D, j + 1, Len(D)))) % D[j]]

\* parallel_for5d starts min(max threads, work amount) threads
For5dTeam(maxThreads, work) == Min(maxThreads, work)

\* parallel_nt(0, ...) starts parallel_get_max_threads() threads
NtTeam(maxThreads) == maxThreads

\* lines 566-572 of schedule_nt: indexes[j] for j = size-2 .. 0
NtIndexes(iwork, work_size) ==
    [j \in 1..(Len(work_size) - 1) |->
        (iwork \div Product(SubSeq(work_size, j + 1, Len(work_size) - 1)))
            % work_size[j]]

\* the bag of the index vectors idx[w] passed to the kernel for the linear
\* indices w of a thread's partition
IndexBag(idx) ==
    LET W  == DOMAIN idx
        vs == {idx[w] : w \in W}
    IN  [v \in vs |-> Cardinality({w \in W : idx[w] = v})]

\* the kernel calls of thread ithr of nthr under schedule_6d and
\* schedule_6d_dynamic (lines 543-547, 553-557)
Schedule6dCalls(dom, nthr, ithr) ==
    LET D == SubSeq(dom, 1, 5)
        r == Splitter(Product(D), nthr, ithr)
    IN  IndexBag([w \in r.start..(r.end - 1) |-> For5dIndexes(w, D)])

\* the kernel calls of thread ithr of nthr under schedule_nt (lines 562-576)
ScheduleNtCalls(work_size, harness, nthr, ithr) ==
    LET r == Splitter(harness, nthr, ithr)
    IN  IndexBag([w \in r.start..(r.end - 1) |-> NtIndexes(w, work_size)])

(***************************************************************************)
(* State.                                                                  *)
(***************************************************************************)
VARIABLES
    pc,                         \* position in the node's life cycle
    phase,                      \* "create" (createPrimitive) or "infer"
    err,                        \* the error raised, "none" if none
    isDynamic,                  \* Node::isDynamic
    nthreads,                   \* parallel_get_max_threads()
    memShapes,                  \* shapes of the memory at the parent edges
    tensorRank, masterShape, normInputShapes,
    originalNormOutputShapes, normOutputShapes,
    tileRank, fullWorkAmount,
    collapsedDims, currentJitWorkAmount,    \* locals of findDimsToCollapse
    exec_domain, data_offsets, scheduler_offsets, broadcasting_mask,
    vector_tile_increments, scalar_tile_increments,
    scheduler_work_amounts, harnessWorkAmount,
    schedule_ptr,               \* schedule.ptr # nullptr
    canUseOptimizedImpl,
    scratchpad_size,            \* scratchpad_memory_chunk.size()
    strategy,                   \* the schedule_* function execute chose
    team,                       \* worker threads of the running dispatch
    done,                       \* worker threads that finished
    kernelCalls,                \* bag of index vectors passed to the kernel
    per_thread_scratchpad       \* per_thread_call_args[i].broadcasting_scratchpad
                                \* as an offset into scratchpad_memory_chunk

envVars    == <<isDynamic, nthreads, memShapes>>
shapeVars  == <<tensorRank, masterShape, normInputShapes,
                originalNormOutputShapes, normOutputShapes>>
optVars    == <<tileRank, fullWorkAmount, collapsedDims, currentJitWorkAmount>>
planVars   == <<exec_domain, data_offsets, scheduler_offsets, broadcasting_mask,
                vector_tile_increments, scalar_tile_increments,
                scheduler_work_amounts, harnessWorkAmount>>
kernelVars == <<schedule_ptr, canUseOptimizedImpl>>
dispVars   == <<scratchpad_size, strategy, team, done, kernelCalls,
                per_thread_scratchpad>>
vars       == <<pc, phase, err, envVars, shapeVars, optVars, planVars,
                kernelVars, dispVars>>

\* the node's declared input shapes: the static shapes, or fully dynamic
\* shapes of the same rank
DynamicShape(r) == [i \in 1..r |-> Dyn]
InputShapes ==
    [i \in 1..NumInputs |->
        IF isDynamic THEN DynamicShape(Len(memShapes[i])) ELSE memShapes[i]]

InitOver(shapes) ==
    /\ pc = "constructed"
    /\ phase = "create"
    /\ err = "none"
    /\ isDynamic \in BOOLEAN
    /\ nthreads \in 1..MaxThreads
    /\ memShapes \in [1..NumInputs -> shapes]
    /\ tensorRank = 0
    /\ masterShape = <<>>
    /\ normInputShapes = <<>>
    /\ originalNormOutputShapes = <<>>
    /\ normOutputShapes = <<>>
    /\ tileRank = 1
    /\ fullWorkAmount = 0
    /\ collapsedDims = 0
    /\ currentJitWorkAmount = 0
    /\ exec_domain = <<>>
    /\ data_offsets = <<>>
    /\ scheduler_offsets = <<>>
    /\ broadcasting_mask = <<>>
    /\ vector_tile_increments = <<>>
    /\ scalar_tile_increments = <<>>
    /\ scheduler_work_amounts = <<>>
    /\ harnessWorkAmount = 0
    /\ schedule_ptr = FALSE
    /\ canUseOptimizedImpl = TRUE
    /\ scratchpad_size = 0
    /\ strategy = "none"
    /\ team = 0
    /\ done = {}
    /\ kernelCalls = EmptyBag
    /\ per_thread_scratchpad = <<>>

Init == InitOver(ShapeSet)

Throw(e) == pc' = "failed" /\ err' = e

(***************************************************************************)
(* Snippet::normalizeShapes, called by createPrimitive.                    *)
(***************************************************************************)
NormalizeShapes ==
    /\ pc = "constructed"
    /\ LET c == Canonicalize(InputShapes) IN
       IF ~c.ok
       THEN /\ Throw("ShapeError")
            /\ UNCHANGED shapeVars
       ELSE LET rank == Max(rank6D, Len(c.master)) IN
            /\ tensorRank' = rank
            /\ masterShape' = PrependWithOnes(c.master, rank)
            /\ normInputShapes' =
                   [i \in 1..NumInputs |-> PrependWithOnes(c.params[i], rank)]
            /\ originalNormOutputShapes' =
                   [i \in 1..Len(c.results) |-> PrependWithOnes(c.results[i], rank)]
            /\ UNCHANGED normOutputShapes
            \* createPrimitive: prepareParams next if static, generate otherwise
            /\ pc' = IF isDynamic THEN "normalized" ELSE "shaped"
            /\ UNCHANGED err
    /\ UNCHANGED <<phase, envVars, optVars, planVars, kernelVars, dispVars>>

(***************************************************************************)
(* Snippet::prepareParams, lines 379-405: the shapes of this invocation.   *)
(***************************************************************************)
\* mutant: the failure of the merge is not acted upon
MergeIntoMasterUnchecked(master, inShape) ==
    [ok |-> TRUE, shape |-> BroadcastMergeInto(master, inShape).shape]

\* line 390: merge one live input shape into the running master shape
MergeIntoMaster(master, inShape) == BroadcastMergeInto(master, inShape)

\* the loop of lines 383-392 from input i on; ok is FALSE if a merge failed
RECURSIVE MergeLiveShapes(_, _, _, _, _)
MergeLiveShapes(i, master, norm, live, rank) ==
    IF i > Len(live)
    THEN [ok |-> TRUE, master |-> master, norm |-> norm]
    ELSE LET inShape == PrependWithOnes(live[i], rank)
             m       == MergeIntoMaster(master, inShape)
         IN  IF ~m.ok
             THEN [ok |-> FALSE, master |-> master, norm |-> norm]
             ELSE MergeLiveShapes(i + 1, m.shape,
                                  Tuple([k \in 1..Len(norm) |->
                                            IF k = i THEN inShape ELSE norm[k]]),
                                  live, rank)

\* lines 394-402: dynamic output extents are taken from the master shape
LiveOutputShapes(orig, master) ==
    Tuples([o \in 1..Len(orig) |->
               [i \in 1..Len(orig[o]) |->
                   IF orig[o][i] = Dyn THEN master[i] ELSE orig[o][i]]])

PrepareShapes ==
    /\ pc = "shaped"
    /\ IF isDynamic
       THEN LET m == MergeLiveShapes(1, memShapes[1], normInputShapes,
                                     memShapes, tensorRank) IN
            /\ masterShape' = m.master
            /\ normInputShapes' = m.norm
            /\ IF m.ok
               THEN /\ normOutputShapes' =
                           LiveOutputShapes(originalNormOutputShapes, m.master)
                    /\ pc' = "merged"
                    /\ UNCHANGED err
               ELSE /\ Throw("ShapeError")
                    /\ UNCHANGED normOutputShapes
       ELSE /\ normOutputShapes' = originalNormOutputShapes
            /\ pc' = "merged"
            /\ UNCHANGED <<err, masterShape, normInputShapes>>
    /\ UNCHANGED <<phase, envVars, tensorRank, originalNormOutputShapes,
                   optVars, planVars, kernelVars, dispVars>>

(***************************************************************************)
(* prepareParams lines 407-411 and the loop of findDimsToCollapse.         *)
(***************************************************************************)
\* lines 407-409 and 275-278
BeginOptimize ==
    /\ pc = "merged"
    /\ IF ~IsStatic(masterShape)
       THEN /\ Throw("PlanningError")      \* masterShape.get_shape() throws
            /\ UNCHANGED optVars
       ELSE /\ tileRank' = 1
            /\ fullWorkAmount' = FullWorkAmount(masterShape)
            /\ collapsedDims' = 0
            /\ currentJitWorkAmount' = masterShape[Len(masterShape)]
            /\ pc' = "optimizing"
            /\ UNCHANGED err
    /\ UNCHANGED <<phase, envVars, shapeVars, planVars, kernelVars, dispVars>>

\* mutant: at the tile rank cap the loop continues instead of leaving
OptimizeIterationNoCap(st, minimalConcurrency) ==
    LET size  == Len(st.domain)
        nextJitWorkAmount == st.current * st.domain[size - 1]
        leave == [st EXCEPT !.looping = FALSE]
    IN
    IF ~LoopGuard(st.current, st.full) THEN leave
    ELSE IF size - st.collapsedDims - 2 < 0 THEN leave
    ELSE IF ~KeepsConcurrency(st.full, nextJitWorkAmount, minimalConcurrency)
    THEN leave
    ELSE IF ~CanCollapse(st.inputs)
    THEN [st EXCEPT !.current = nextJitWorkAmount,
                    !.tileRank = IF @ < maxTileRank THEN @ + 1 ELSE @]
    ELSE [st EXCEPT !.current = nextJitWorkAmount,
                    !.collapsedDims = @ + 1,
                    !.inputs  = Tuple([i \in 1..Len(st.inputs) |->
                                          CollapseLastDims(st.inputs[i], 1)]),
                    !.outputs = Tuple([i \in 1..Len(st.outputs) |->
                                          CollapseLastDims(st.outputs[i], 1)]),
                    !.domain  = CollapseLastDims(st.domain, 1)]

\* one evaluation of the loop condition of line 279 and, when it holds, of
\* the loop body of lines 280-313, on the optimizer's state st
OptimizeIteration(st, minimalConcurrency) ==
    LET size  == Len(st.domain)
        nextJitWorkAmount == st.current * st.domain[size - 1]
        leave == [st EXCEPT !.looping = FALSE]
    IN
    IF ~LoopGuard(st.current, st.full) THEN leave
    ELSE IF size - st.collapsedDims - 2 < 0 THEN leave
    ELSE IF ~KeepsConcurrency(st.full, nextJitWorkAmount, minimalConcurrency)
    THEN leave
    ELSE IF ~CanCollapse(st.inputs)
    THEN IF st.tileRank < maxTileRank
         THEN [st EXCEPT !.current = nextJitWorkAmount, !.tileRank = @ + 1]
         ELSE [leave EXCEPT !.current = nextJitWorkAmount]
    ELSE [st EXCEPT !.current = nextJitWorkAmount,
                    !.collapsedDims = @ + 1,
                    !.inputs  = Tuple([i \in 1..Len(st.inputs) |->
                                          CollapseLastDims(st.inputs[i], 1)]),
                    !.outputs = Tuple([i \in 1..Len(st.outputs) |->
                                          CollapseLastDims(st.outputs[i], 1)]),
                    !.domain  = CollapseLastDims(st.domain, 1)]

\* the loop of findDimsToCollapse run to its end
RECURSIVE RunOptimize(_, _)
RunOptimize(st, minimalConcurrency) ==
    IF ~st.looping
    THEN st
    ELSE RunOptimize(OptimizeIteration(st, minimalConcurrency), minimalConcurrency)

OptimizeStep ==
    /\ pc = "optimizing"
    /\ LET st == [looping |-> TRUE, current |-> currentJitWorkAmount,
                  full |-> fullWorkAmount, collapsedDims |-> collapsedDims,
                  tileRank |-> tileRank, inputs |-> normInputShapes,
                  outputs |-> normOutputShapes, domain |-> masterShape]
           r  == OptimizeIteration(st, nthreads)
       IN
       /\ currentJitWorkAmount' = r.current
       /\ collapsedDims' = r.collapsedDims
       /\ tileRank' = r.tileRank
       /\ normInputShapes' = r.inputs
       /\ normOutputShapes' = r.outputs
       /\ masterShape' = r.domain
       /\ pc' = IF r.looping THEN "optimizing" ELSE "collapsed"
    /\ UNCHANGED <<phase, err, envVars, tensorRank, originalNormOutputShapes,
                   fullWorkAmount, planVars, kernelVars, dispVars>>

(***************************************************************************)
(* prepareParams lines 412-447.                                            *)
(***************************************************************************)
\* lines 438, 441-446: the tile extents go to the last tRank entries
SchedulerWorkAmounts(prev, dom, tRank) ==
    LET resized == Resize(prev, maxTileRank, 1) IN
    [k \in 1..maxTileRank |->
        IF k > maxTileRank - tRank
        THEN dom[Len(dom) - (maxTileRank - k)]
        ELSE resized[k]]

\* lines 440-444: fullWorkAmount divided by each tile extent in turn
RECURSIVE HarnessWorkAmount(_, _, _)
HarnessWorkAmount(full, dom, tRank) ==
    IF tRank = 0
    THEN full
    ELSE HarnessWorkAmount(full \div dom[Len(dom)],
                           SubSeq(dom, 1, Len(dom) - 1), tRank - 1)

\* mutant: the tile extents are left in exec_domain (line 446 dropped)
HarnessDomainKeepsTile(dom, tRank) == dom

\* lines 412, 446: exec_domain with the tile extents replaced by 1
HarnessDomain(dom, tRank) ==
    [i \in 1..Len(dom) |-> IF i > Len(dom) - tRank THEN 1 ELSE dom[i]]

\* line 444 divides by the tile extents *exec_it; a zero divisor is undefined
\* behaviour: the division traps, or it yields 0 and the loop goes on
DivisionOutcomes(dom, tRank) ==
    IF \E k \in 0..(tRank - 1) : dom[Len(dom) - k] = 0
    THEN {"trap", "zero"}
    ELSE {"defined"}

FinishPrepare ==
    /\ pc = "collapsed"
    /\ \E outcome \in DivisionOutcomes(masterShape, tileRank) :
       IF outcome = "trap"
       THEN /\ Throw("ArithmeticFault")
            /\ UNCHANGED planVars
       ELSE
       LET operands == normInputShapes \o normOutputShapes
           bmask    == [i \in 1..Len(operands) |->
                           BroadcastMask(masterShape, operands[i])]
           offsets  == DataOffsets(data_offsets, operands, masterShape)
       IN
       /\ broadcasting_mask' = bmask
       /\ IF isDynamic
          THEN /\ vector_tile_increments' = VectorTileInc(bmask, isa_num_lanes)
               /\ scalar_tile_increments' = ScalarTileInc(bmask)
          ELSE UNCHANGED <<vector_tile_increments, scalar_tile_increments>>
       /\ data_offsets' = offsets
       /\ scheduler_offsets' =
              SchedulerOffsets(offsets, normInputShapes, normOutputShapes,
                               masterShape, tileRank, bmask)
       /\ scheduler_work_amounts' =
              SchedulerWorkAmounts(scheduler_work_amounts, masterShape, tileRank)
       /\ harnessWorkAmount' =
              IF outcome = "zero"
              THEN 0
              ELSE HarnessWorkAmount(fullWorkAmount, masterShape, tileRank)
       /\ exec_domain' = HarnessDomain(masterShape, tileRank)
       /\ pc' = "planned"
       /\ UNCHANGED err
    /\ UNCHANGED <<phase, envVars, shapeVars, optVars, kernelVars, dispVars>>

(***************************************************************************)
(* Kernel generation.                                                      *)
(***************************************************************************)
\* createPrimitive lines 360-373: snippet->generate returns the schedule,
\* whose code pointer may be null
CreateKernel ==
    /\ \/ pc = "normalized"
       \/ pc = "planned" /\ phase = "create"
    /\ schedule_ptr' \in BOOLEAN
    /\ pc' = "idle"
    /\ UNCHANGED <<phase, err, envVars, shapeVars, optVars, planVars,
                   canUseOptimizedImpl, dispVars>>

\* harness_num_dims > SNIPPETS_MAX_HARNESS_DIMS of lines 527-528, on size_t
HarnessDimsExceed(domainSize, tRank) ==
    \/ domainSize < tRank
    \/ domainSize - tRank > SNIPPETS_MAX_HARNESS_DIMS

\* Snippet::generate
Generate ==
    /\ pc = "idle"
    /\ canUseOptimizedImpl' =
           IF HarnessDimsExceed(Len(exec_domain), tileRank)
           THEN FALSE ELSE canUseOptimizedImpl
    /\ schedule_ptr' \in BOOLEAN
    /\ pc' = "generated"
    /\ UNCHANGED <<phase, err, envVars, shapeVars, optVars, planVars, dispVars>>

(***************************************************************************)
(* One inference: the graph sets the live shapes, calls prepareParams when *)
(* needPrepareParams() says so, then execute.                              *)
(***************************************************************************)
NeedPrepareParams == ~schedule_ptr \/ isDynamic

InferOver(shapes) ==
    /\ pc \in {"idle", "generated", "executed"}
    /\ phase' = "infer"
    /\ \/ nthreads' \in 1..MaxThreads /\ UNCHANGED memShapes
       \/ /\ isDynamic
          /\ \E i \in 1..NumInputs :
                 \E s \in {t \in shapes : Len(t) = Len(memShapes[i])} :
                     memShapes' = [memShapes EXCEPT ![i] = s]
          /\ UNCHANGED nthreads
    /\ pc' = IF isDynamic /\ NeedPrepareParams THEN "shaped" ELSE "planned"
    /\ strategy' = "none"
    /\ team' = 0
    /\ done' = {}
    /\ kernelCalls' = EmptyBag
    /\ per_thread_scratchpad' = <<>>
    /\ UNCHANGED <<err, isDynamic, shapeVars, optVars, planVars,
                   kernelVars, scratchpad_size>>

Infer == InferOver(ShapeSet)

(***************************************************************************)
(* Snippet::execute and the schedule_* functions.                          *)
(***************************************************************************)
\* mutant: the null test of the kernel pointer is dropped
CanExecuteNoNullCheck(ptr, canUse) == canUse

\* line 455
CanExecute(ptr, canUse) == ptr /\ canUse

\* mutant: ranks above rank6D pass the test
DynamicRankAtLeast(rank) == rank >= rank6D

\* line 477
DynamicRankSupported(rank) == rank = rank6D

\* lines 482-485
DynamicStrategy(bmask) ==
    IF \E i \in 1..Len(bmask) : bmask[i]
    THEN "schedule_6d_dynamic" ELSE "schedule_6d"

\* mutant: the rank boundary is off by one
StaticStrategyOffByOne(rank) ==
    IF rank <= rank6D + 1 THEN "schedule_6d" ELSE "schedule_nt"

\* lines 487-491
StaticStrategy(rank) == IF rank = rank6D THEN "schedule_6d" ELSE "schedule_nt"

\* lines 474-475
ScratchpadSize(prev, nthr, lanes) ==
    IF prev = 0 THEN nthr * lanes * NumInputs ELSE prev

\* lines 476, 556: under schedule_6d every kernel call receives call_args
\* itself, whose broadcasting_scratchpad is the start of the buffer
SharedScratchpad(nthr) == Tuple([i \in 1..nthr |-> 0])

\* mutant: the per-thread offset is not added
PerThreadScratchpadShared(nthr, lanes) == SharedScratchpad(nthr)

\* lines 537-541: entry i (0-based) of per_thread_call_args points
\* i * scratchpad_size elements into the buffer
PerThreadScratchpad(nthr, lanes) ==
    Tuple([i \in 1..nthr |-> (i - 1) * (lanes * NumInputs)])

\* the scratch elements the kernel calls of thread ithr are handed: the
\* scratchpad_size elements from the pointer of its call arguments
\* (lines 538, 546)
ScratchRange(ithr) ==
    LET base == per_thread_scratchpad[ithr + 1]
    IN  base..(base + isa_num_lanes * NumInputs - 1)

StartDispatch(s) ==
    /\ strategy' = s
    /\ per_thread_scratchpad' =
           IF s = "schedule_6d_dynamic"
           THEN PerThreadScratchpad(nthreads, isa_num_lanes)
           ELSE IF isDynamic THEN SharedScratchpad(nthreads) ELSE <<>>
    /\ team' = IF s = "schedule_nt"
               THEN NtTeam(nthreads)
               ELSE For5dTeam(nthreads, Product(SubSeq(exec_domain, 1, 5)))
    /\ done' = {}
    /\ kernelCalls' = EmptyBag
    /\ pc' = "dispatch"
    /\ UNCHANGED err

Execute ==
    /\ pc = "planned"
    /\ phase = "infer"
    /\ IF ~CanExecute(schedule_ptr, canUseOptimizedImpl)
       THEN /\ Throw("ExecutionError")
            /\ UNCHANGED dispVars
       ELSE IF isDynamic
       THEN /\ scratchpad_size' =
                   ScratchpadSize(scratchpad_size, nthreads, isa_num_lanes)
            /\ IF ~DynamicRankSupported(tensorRank)
               THEN /\ Throw("ExecutionError")
                    /\ UNCHANGED <<strategy, team, done, kernelCalls,
                                   per_thread_scratchpad>>
               ELSE StartDispatch(DynamicStrategy(broadcasting_mask))
       ELSE /\ StartDispatch(StaticStrategy(tensorRank))
            /\ UNCHANGED scratchpad_size
    /\ UNCHANGED <<phase, envVars, shapeVars, optVars, planVars, kernelVars>>

\* worker thread ithr runs its whole partition
RunThread(ithr) ==
    /\ pc = "dispatch"
    /\ ithr \in (0..(team - 1)) \ done
    /\ kernelCalls' = kernelCalls (+)
           (IF strategy = "schedule_nt"
            THEN ScheduleNtCalls(exec_domain, harnessWorkAmount, team, ithr)
            ELSE Schedule6dCalls(exec_domain, team, ithr))
    /\ done' = done \cup {ithr}
    /\ UNCHANGED <<pc, phase, err, envVars, shapeVars, optVars, planVars,
                   kernelVars, scratchpad_size, strategy, team,
                   per_thread_scratchpad>>

\* the dispatch returns when every worker has finished
Barrier ==
    /\ pc = "dispatch"
    /\ done = 0..(team - 1)
    /\ pc' = "executed"
    /\ UNCHANGED <<phase, err, envVars, shapeVars, optVars, planVars,
                   kernelVars, dispVars>>

Next ==
    \/ NormalizeShapes
    \/ PrepareShapes
    \/ BeginOptimize
    \/ OptimizeStep
    \/ FinishPrepare
    \/ CreateKernel
    \/ Generate
    \/ Infer
    \/ Execute
    \/ \E ithr \in 0..(MaxThreads - 1) : RunThread(ithr)
    \/ Barrier

Spec == Init /\ [][Next]_vars

(***************************************************************************)
(* Definitions shared by the properties.                                   *)
(***************************************************************************)
\* the elementwise maximum of the live input shapes, left-padded with 1s
MaxPadded ==
    [j \in 1..tensorRank |->
        Max(DimAt(memShapes[1], tensorRank, j), DimAt(memShapes[2], tensorRank, j))]

\* every pair of operands agrees on each dimension where neither extent is 1
Compatible ==
    LET r == Max(Len(memShapes[1]), Len(memShapes[2])) IN
    \A j \in 1..r :
        LET a == DimAt(memShapes[1], r, j)
            b == DimAt(memShapes[2], r, j)
        IN  a = 1 \/ b = 1 \/ a = b

\* all index vectors below the extents dims
RECURSIVE Coordinates(_)
Coordinates(dims) ==
    IF dims = <<>>
    THEN {<<>>}
    ELSE {<<x>> \o t : x \in 0..(Head(dims) - 1), t \in Coordinates(Tail(dims))}

\* the extents of the harness dimensions of the collapsed domain, as the
\* kernel's index vector sees them: the trailing tileRank dimensions are not
\* iterated by the harness
HarnessExtents ==
    [j \in 1..(Len(masterShape) - 1) |->
        IF j > Len(masterShape) - tileRank THEN 1 ELSE masterShape[j]]

\* total elements of the collapsed domain over its innermost extent
Parallelism == Product(masterShape) \div masterShape[Len(masterShape)]

(***************************************************************************)
(* C1.  Dispatch coverage: under schedule_6d, schedule_6d_dynamic and      *)
(* schedule_nt alike, no index vector is passed to the kernel twice while  *)
(* the threads run, and when the dispatch has returned the index vectors   *)
(* passed to the kernel are exactly the harness coordinates of the         *)
(* iteration domain, each once.                                            *)
(***************************************************************************)
C1_DispatchCoverage ==
    /\ pc \in {"dispatch", "executed"} =>
          /\ \A v \in BagToSet(kernelCalls) : CopiesIn(v, kernelCalls) = 1
          /\ BagToSet(kernelCalls) \subseteq Coordinates(HarnessExtents)
    /\ pc = "executed" => BagToSet(kernelCalls) = Coordinates(HarnessExtents)

\* a dynamic dispatch with tile rank 2 over several harness coordinates has
\* returned, run by more than one thread
C1_Witness ==
    /\ pc = "executed"
    /\ strategy = "schedule_6d_dynamic"
    /\ tileRank = 2
    /\ team > 1
    /\ Cardinality(BagToSet(kernelCalls)) > 1

(***************************************************************************)
(* C2.  While optimizeExecDomain runs and when it returns, the domain and  *)
(* every operand shape keep the tensor rank, the product of the domain's   *)
(* extents equals the product of the master shape it was given, and the    *)
(* product of each operand's extents is unchanged by the folds.            *)
(***************************************************************************)
C2_ProductPreserved ==
    pc \in {"optimizing", "collapsed"} =>
        /\ Len(masterShape) = tensorRank
        /\ Product(masterShape) = Product(MaxPadded)
        /\ \A i \in 1..NumInputs :
              /\ Len(normInputShapes[i]) = tensorRank
              /\ Product(normInputShapes[i]) = Product(memShapes[i])
        /\ \A o \in 1..Len(normOutputShapes) :
              /\ Len(normOutputShapes[o]) = tensorRank
              /\ Product(normOutputShapes[o]) = Product(MaxPadded)

\* the optimizer has returned after folding at least two dimensions with
\* extents above 1 into the innermost one
C2_Witness ==
    /\ pc = "collapsed"
    /\ collapsedDims >= 2
    /\ masterShape[Len(masterShape)] >= 8
    /\ masterShape # MaxPadded

(***************************************************************************)
(* C3 as stated: the domain optimizeExecDomain returns never has (total    *)
(* elements / innermost extent) below the thread floor.                    *)
(***************************************************************************)
C3_Original == pc = "collapsed" => Parallelism >= nthreads

(***************************************************************************)
(* C3 amended.  optimizeExecDomain never folds a domain below the thread   *)
(* floor: when it has performed at least one fold, fullWorkAmount divided  *)
(* by the innermost extent of the returned domain is at or above the       *)
(* floor; a returned domain below the floor is one no fold was applied to. *)
(***************************************************************************)
C3_FoldKeepsFloor ==
    pc = "collapsed" /\ collapsedDims > 0 =>
        /\ fullWorkAmount \div masterShape[Len(masterShape)] >= nthreads
        /\ Parallelism >= nthreads

\* folds were performed under a floor above 1 and stopped exactly at it
C3_Witness ==
    /\ pc = "collapsed"
    /\ collapsedDims > 0
    /\ nthreads > 1
    /\ Parallelism = nthreads
    /\ masterShape # MaxPadded

\* the operands of the plan: the inputs, then the outputs
Operands == normInputShapes \o normOutputShapes

\* entry of operand p and dimension d of the offset table
Stride(p, d) == data_offsets[(p - 1) * (Len(masterShape) - 1) + d]

\* operand p is broadcast on dimension d
BroadcastOn(p, d) == Operands[p][d] = 1 /\ masterShape[d] > 1

HarnessDims == 1..(Len(masterShape) - tileRank)

(***************************************************************************)
(* C4 as stated: in the offset table, for every operand and every harness  *)
(* dimension d, the stride is 0 if the operand is broadcast on d, and the  *)
(* product of the operand's own inner extents times the element size on    *)
(* every dimension it is not broadcast on.                                 *)
(***************************************************************************)
C4_Original ==
    pc = "planned" =>
        \A p \in 1..Len(Operands) : \A d \in HarnessDims :
            Stride(p, d) =
                IF BroadcastOn(p, d)
                THEN 0
                ELSE Product(SubSeq(Operands[p], d + 1, Len(Operands[p]))) * FP32Size

(***************************************************************************)
(* C4 amended.  For every operand and every harness dimension d, the       *)
(* stride is 0 if the operand is broadcast on d or the master extent on d  *)
(* is 1, and otherwise it is the product of the operand's own extents on   *)
(* the dimensions inner to d times the element size.                       *)
(***************************************************************************)
C4_Strides ==
    pc = "planned" =>
        \A p \in 1..Len(Operands) : \A d \in HarnessDims :
            Stride(p, d) =
                IF BroadcastOn(p, d) \/ masterShape[d] = 1
                THEN 0
                ELSE Product(SubSeq(Operands[p], d + 1, Len(Operands[p]))) * FP32Size

\* a plan where, on one harness dimension, one operand is broadcast and
\* another is not, with a stride above the element size
C4_Witness ==
    /\ pc = "planned"
    /\ \E d \in HarnessDims : \E p, q \in 1..Len(Operands) :
          /\ BroadcastOn(p, d) /\ Stride(p, d) = 0
          /\ Operands[q][d] > 1 /\ Stride(q, d) > FP32Size

(***************************************************************************)
(* C5.  Broadcast-compatible operand shapes never raise ShapeError, and    *)
(* the master shape derived before collapsing, by canonicalization and by  *)
(* the dynamic merge of prepareParams alike, is the elementwise maximum of *)
(* the operands' shapes left-padded with 1s to the tensor rank; each       *)
(* normalized operand shape is the operand's shape behind the padding, so  *)
(* it has extent 1 exactly where the operand had it.                       *)
(***************************************************************************)
C5_MasterIsMaximum ==
    /\ Compatible => err # "ShapeError"
    /\ pc = "merged" =>
          /\ masterShape = MaxPadded
          /\ \A i \in 1..NumInputs :
                /\ Len(normInputShapes[i]) = tensorRank
                /\ \A j \in 1..tensorRank :
                      normInputShapes[i][j] = DimAt(memShapes[i], tensorRank, j)

\* the dynamic merge of two operands of different rank, each broadcast
\* against the other on some dimension
C5_Witness ==
    /\ pc = "merged"
    /\ isDynamic
    /\ Len(memShapes[1]) < Len(memShapes[2])
    /\ masterShape # normInputShapes[1]
    /\ masterShape # normInputShapes[2]

FreshPlan(live, nthr) ==
    LET c     == Canonicalize([i \in 1..Len(live) |-> DynamicShape(Len(live[i]))])
        rank  == Max(rank6D, Len(c.master))
        norm0 == Tuple([i \in 1..Len(live) |-> PrependWithOnes(c.params[i], rank)])
        orig  == Tuple([i \in 1..Len(c.results) |->
                           PrependWithOnes(c.results[i], rank)])
        m     == MergeLiveShapes(1, live[1], norm0, live, rank)
        o     == RunOptimize([looping |-> TRUE,
                              current |-> m.master[Len(m.master)],
                              full |-> FullWorkAmount(m.master),
                              collapsedDims |-> 0, tileRank |-> 1,
                              inputs |-> m.norm,
                              outputs |-> LiveOutputShapes(orig, m.master),
                              domain |-> m.master], nthr)
        ops   == o.inputs \o o.outputs
        bmask == Tuple([i \in 1..Len(ops) |-> BroadcastMask(o.domain, ops[i])])
        offs  == DataOffsets(<<>>, ops, o.domain)
    IN  [masterShape |-> o.domain,
         exec_domain |-> HarnessDomain(o.domain, o.tileRank),
         tileRank |-> o.tileRank,
         normInputShapes |-> o.inputs,
         normOutputShapes |-> o.outputs,
         data_offsets |-> offs,
         scheduler_offsets |-> SchedulerOffsets(offs, o.inputs, o.outputs,
                                                o.domain, o.tileRank, bmask),
         vector_tile_increments |-> VectorTileInc(bmask, isa_num_lanes),
         scalar_tile_increments |-> ScalarTileInc(bmask),
         broadcasting_mask |-> bmask]

C7_NoStalePlan ==
    isDynamic /\ pc = "planned" =>
        [masterShape |-> masterShape,
         exec_domain |-> exec_domain,
         tileRank |-> tileRank,
         normInputShapes |-> normInputShapes,
         normOutputShapes |-> normOutputShapes,
         data_offsets |-> data_offsets,
         scheduler_offsets |-> scheduler_offsets,
         vector_tile_increments |-> vector_tile_increments,
         scalar_tile_increments |-> scalar_tile_increments,
         broadcasting_mask |-> broadcasting_mask]
            = FreshPlan(memShapes, nthreads)

\* a later invocation planned with tile rank 1 and a broadcast operand,
\* after an invocation that had planned with tile rank 2
C7_Witness ==
    /\ isDynamic
    /\ pc = "planned"
    /\ tileRank = 1
    /\ scheduler_work_amounts[1] # 1
    /\ \E i \in 1..Len(broadcasting_mask) : broadcasting_mask[i]

(***************************************************************************)
(* C8 as stated: with a domain rank above 6, for static and for dynamic    *)
(* shapes, execute raises an error before any thread starts and the        *)
(* kernel is never called.                                                 *)
(***************************************************************************)
C8_Original ==
    tensorRank > rank6D =>
        /\ pc \notin {"dispatch", "executed"}
        /\ kernelCalls = EmptyBag
        /\ done = {}

(***************************************************************************)
(* C8 amended.  With dynamic shapes and a domain rank above 6, execute     *)
(* raises an error before any thread starts and the kernel is never        *)
(* called.                                                                 *)
(***************************************************************************)
C8_DynamicRankFatal ==
    isDynamic /\ tensorRank > rank6D =>
        /\ pc \notin {"dispatch", "executed"}
        /\ kernelCalls = EmptyBag
        /\ done = {}
        /\ team = 0

\* execute of a dynamic instance with a generated kernel failed on rank 7
C8_Witness ==
    /\ isDynamic
    /\ tensorRank > rank6D
    /\ schedule_ptr
    /\ canUseOptimizedImpl
    /\ pc = "failed"
    /\ err = "ExecutionError"

(***************************************************************************)
(* C9.  While no kernel has been compiled (schedule.ptr is null), no       *)
(* dispatch starts: execute fails, no worker thread is started and the     *)
(* kernel is never called.                                                 *)
(***************************************************************************)
C9_NullKernelFatal ==
    /\ ~schedule_ptr =>
          /\ pc \notin {"dispatch", "executed"}
          /\ kernelCalls = EmptyBag
          /\ done = {}
          /\ team = 0
    /\ pc = "failed" /\ ~schedule_ptr /\ err \notin {"ShapeError", "PlanningError"}
          => err = "ExecutionError" /\ phase = "infer"

\* execute failed on a null kernel pointer with a plan in place
C9_Witness ==
    /\ ~schedule_ptr
    /\ canUseOptimizedImpl
    /\ ~isDynamic
    /\ exec_domain # <<>>
    /\ pc = "failed"
    /\ err = "ExecutionError"

(***************************************************************************)
(* C10 as stated: with static shapes execute uses the 5-dimensional        *)
(* parallel loop whenever the harness rank (domain rank minus tile rank)   *)
(* is at most 5, and schedule_nt only otherwise.                           *)
(***************************************************************************)
C10_Original ==
    ~isDynamic /\ pc \in {"dispatch", "executed"} =>
        IF tensorRank - tileRank <= 5
        THEN strategy = "schedule_6d"
        ELSE strategy = "schedule_nt"

(***************************************************************************)
(* C10 amended.  With static shapes execute uses the 5-dimensional         *)
(* parallel loop exactly when the domain rank is 6, and schedule_nt for    *)
(* every domain rank above 6, whatever the tile rank is.                   *)
(***************************************************************************)
C10_StrategyByRank ==
    ~isDynamic /\ pc \in {"dispatch", "executed"} =>
        IF tensorRank = rank6D
        THEN strategy = "schedule_6d"
        ELSE strategy = "schedule_nt" /\ tensorRank > rank6D

\* a static domain of rank 7 with tile rank 2 (harness rank 5) is
\* dispatched by schedule_nt
C10_Witness ==
    /\ ~isDynamic
    /\ pc = "dispatch"
    /\ tensorRank = rank6D + 1
    /\ tileRank = 2
    /\ strategy = "schedule_nt"

(***************************************************************************)
(* C11.  optimizeExecDomain folds the next-outer dimension into the        *)
(* innermost one only when every operand, input or output, has the same    *)
(* broadcast status on both dimensions: an operand that is broadcast       *)
(* (extent 1 against a master extent above 1) on exactly one of the two    *)
(* dimensions blocks the fold.                                             *)
(***************************************************************************)
C11_FoldNeedsUniformBroadcast ==
    [][pc = "optimizing" /\ collapsedDims' = collapsedDims + 1 =>
          \A p \in 1..Len(Operands) :
              BroadcastOn(p, Len(masterShape) - 1) <=> BroadcastOn(p, Len(masterShape))]_vars

\* a fold was performed with an operand that is broadcast on the innermost
\* dimension before and after it
C11_Witness ==
    /\ pc = "collapsed"
    /\ collapsedDims = 1
    /\ tileRank = 1
    /\ \E i \in 1..NumInputs :
          /\ normInputShapes[i][Len(masterShape)] = 1
          /\ masterShape[Len(masterShape)] > MaxDim

(***************************************************************************)
(* C12 as stated: after prepareParams the tile rank is 1 or 2; it is 2     *)
(* only if some operand is broadcast (extent 1 against a master extent     *)
(* above 1) on exactly one of the two trailing dimensions, and it is 1     *)
(* when no operand is broadcast on any dimension.                          *)
(***************************************************************************)
C12_Original ==
    pc = "planned" =>
        /\ tileRank \in {1, 2}
        /\ tileRank = 2 =>
              \E p \in 1..Len(Operands) :
                  ~(BroadcastOn(p, Len(masterShape) - 1) <=> BroadcastOn(p, Len(masterShape)))
        /\ (\A p \in 1..Len(Operands) : \A d \in 1..Len(masterShape) : ~BroadcastOn(p, d))
              => tileRank = 1

(***************************************************************************)
(* C13.  The fold loop of optimizeExecDomain terminates: every iteration   *)
(* either folds one dimension (the count of folds stays at most rank - 1), *)
(* raises the tile rank by one (up to maxTileRank, so at most once), or    *)
(* leaves the loop; rank - 1 - collapsedDims + maxTileRank - tileRank      *)
(* decreases in every iteration that stays in the loop.                    *)
(***************************************************************************)
C13_LoopProgress ==
    [][pc = "optimizing" =>
          \/ pc' = "collapsed"
          \/ /\ pc' = "optimizing"
             /\ collapsedDims' = collapsedDims + 1
             /\ collapsedDims' <= Len(masterShape) - 1
             /\ tileRank' = tileRank
          \/ /\ pc' = "optimizing"
             /\ tileRank' = tileRank + 1
             /\ tileRank' <= maxTileRank
             /\ collapsedDims' = collapsedDims]_vars

\* a rank-6 domain on which the loop folded twice and left with the whole
\* domain in the innermost dimension
C13_Witness ==
    /\ pc = "collapsed"
    /\ tensorRank = rank6D
    /\ collapsedDims = 2
    /\ currentJitWorkAmount = fullWorkAmount
    /\ nthreads = 1

\* the negative rewind by one row of the master shape
Rewind == (0 - 1) * masterShape[Len(masterShape)] * FP32Size

C15_Original ==
    /\ pc = "dispatch"
    /\ isDynamic
    /\ \E p \in 1..Len(Operands) : \E d \in 1..Len(masterShape) : BroadcastOn(p, d)
    => \A t1, t2 \in 0..(team - 1) :
           t1 # t2 => ScratchRange(t1) \cap ScratchRange(t2) = {}

(***************************************************************************)
(* C15 amended.  In every dispatch with dynamic shapes in which some       *)
(* input has extent 1 in the innermost dimension of the collapsed domain   *)
(* while the master extent there is not 1 (its broadcasting mask is set),  *)
(* the dispatch is schedule_6d_dynamic, every worker thread has call       *)
(* arguments of its own, and the scratch sub-ranges handed to two          *)
(* different worker threads do not overlap.  When operands broadcast in    *)
(* other dimensions only, all threads are handed the start of the buffer.  *)
(***************************************************************************)
C15_PrivateScratch ==
    /\ pc = "dispatch" /\ isDynamic
       /\ (\E i \in 1..Len(broadcasting_mask) : broadcasting_mask[i])
       => /\ strategy = "schedule_6d_dynamic"
          /\ team <= Len(per_thread_scratchpad)
          /\ \A t1, t2 \in 0..(team - 1) :
                 t1 # t2 => ScratchRange(t1) \cap ScratchRange(t2) = {}
    /\ pc = "dispatch" /\ isDynamic
       /\ ~(\E i \in 1..Len(broadcasting_mask) : broadcasting_mask[i])
       => /\ strategy = "schedule_6d"
          /\ \A t \in 0..(team - 1) : ScratchRange(t) = ScratchRange(0)

\* a schedule_6d_dynamic dispatch with three worker threads, two finished
C15_Witness ==
    /\ pc = "dispatch"
    /\ strategy = "schedule_6d_dynamic"
    /\ team = 3
    /\ Cardinality(done) = 2
    /\ per_thread_scratchpad[3] = 2 * isa_num_lanes * NumInputs

(***************************************************************************)
(* C16 as stated: in every dispatch with dynamic shapes, the scratch       *)
(* sub-range of every worker thread lies inside the scratch buffer, which  *)
(* was sized on the first dynamic execution and is never resized, also     *)
(* when the number of threads differs from the number at sizing time.      *)
(***************************************************************************)
C16_Original ==
    pc = "dispatch" /\ isDynamic =>
        \A t \in 0..(team - 1) :
            ScratchRange(t) \subseteq 0..(scratchpad_size - 1)

(***************************************************************************)
(* C17 as stated: after every prepareParams, whatever the invocations      *)
(* before it, scheduler_work_amounts holds the extents of the trailing     *)
(* tileRank dimensions of the collapsed domain in its last tileRank        *)
(* entries and 1 in every other entry, so that an invocation ending with   *)
(* tile rank 1 after one ending with tile rank 2 leaves the outer entry at *)
(* 1, and harnessWorkAmount times the product of the entries is            *)
(* fullWorkAmount.                                                         *)
(***************************************************************************)
C17_Original ==
    pc = "planned" =>
        /\ Len(scheduler_work_amounts) = maxTileRank
        /\ \A k \in 1..maxTileRank :
               scheduler_work_amounts[k] =
                   IF k > maxTileRank - tileRank
                   THEN masterShape[Len(masterShape) - (maxTileRank - k)]
                   ELSE 1
        /\ harnessWorkAmount * Product(scheduler_work_amounts) = fullWorkAmount

(***************************************************************************)
(* The width of fullWorkAmount.  Line 409 is                               *)
(*   std::accumulate(begin, end, 1, std::multiplies<size_t>())             *)
(* whose accumulator has the type of the initial value 1, int: every       *)
(* product is computed in size_t and stored back into the int.  The values *)
(* are kept as little-endian byte strings, an int as IntBytes bytes in     *)
(* two's complement and a size_t as SizeBytes bytes.                       *)
(***************************************************************************)
MaxWideRank == 3

ByteRadix == 256
IntBytes == 4
SizeBytes == 8

\* the extents of the master shapes of the width specification
WideExtents == {1, 2, 3, 32768, 46341, 65536, 2147483647}

WideMasterShapes ==
    UNION {[1..r -> WideExtents] : r \in 1..MaxWideRank}

\* the low w bytes of the natural number n
RECURSIVE ToBytes(_, _)
ToBytes(n, w) ==
    IF w = 0 THEN <<>> ELSE <<n % ByteRadix>> \o ToBytes(n \div ByteRadix, w - 1)

\* sum of a[i] * b[k + 1 - i] for i = from..k: column k of the long product
RECURSIVE ColumnSum(_, _, _, _)
ColumnSum(a, b, k, from) ==
    IF from > k THEN 0 ELSE a[from] * b[k + 1 - from] + ColumnSum(a, b, k, from + 1)

RECURSIVE Propagate(_, _, _, _)
Propagate(a, b, k, carry) ==
    IF k > Len(a)
    THEN <<>>
    ELSE LET sum == ColumnSum(a, b, k, 1) + carry
         IN  <<sum % ByteRadix>> \o Propagate(a, b, k + 1, sum \div ByteRadix)

\* std::multiplies: the product of two unsigned values of Len(a) bytes,
\* modulo ByteRadix^Len(a)
Multiplies(a, b) == Propagate(a, b, 1, 0)

\* conversion of an int to size_t: sign extension
IntToSizeT(x) ==
    x \o [i \in 1..(SizeBytes - IntBytes) |->
            IF x[IntBytes] >= ByteRadix \div 2 THEN ByteRadix - 1 ELSE 0]

\* conversion of a size_t to int: the low IntBytes bytes
SizeTToInt(v) == SubSeq(v, 1, IntBytes)

\* std::accumulate with an int accumulator acc over the extents of shape
RECURSIVE Accumulate(_, _)
Accumulate(acc, shape) ==
    IF shape = <<>>
    THEN acc
    ELSE Accumulate(SizeTToInt(Multiplies(IntToSizeT(acc),
                                          ToBytes(Head(shape), SizeBytes))),
                    Tail(shape))

\* line 409: the int result is stored in the size_t fullWorkAmount
FullWorkAmountBytes(shape) == IntToSizeT(Accumulate(ToBytes(1, IntBytes), shape))

InitWide ==
    /\ pc = "merged"
    /\ phase = "infer"
    /\ err = "none"
    /\ isDynamic = TRUE
    /\ nthreads = 1
    /\ masterShape \in WideMasterShapes
    /\ memShapes = [i \in 1..NumInputs |-> masterShape]
    /\ tensorRank = Len(masterShape)
    /\ normInputShapes = [i \in 1..NumInputs |-> masterShape]
    /\ originalNormOutputShapes = <<masterShape>>
    /\ normOutputShapes = <<masterShape>>
    /\ tileRank = 1
    /\ fullWorkAmount = ToBytes(0, SizeBytes)
    /\ collapsedDims = 0
    /\ currentJitWorkAmount = 0
    /\ exec_domain = <<>>
    /\ data_offsets = <<>>
    /\ scheduler_offsets = <<>>
    /\ broadcasting_mask = <<>>
    /\ vector_tile_increments = <<>>
    /\ scalar_tile_increments = <<>>
    /\ scheduler_work_amounts = <<>>
    /\ harnessWorkAmount = 0
    /\ schedule_ptr = TRUE
    /\ canUseOptimizedImpl = TRUE
    /\ scratchpad_size = 0
    /\ strategy = "none"
    /\ team = 0
    /\ done = {}
    /\ kernelCalls = EmptyBag
    /\ per_thread_scratchpad = <<>>

\* lines 407-409 of prepareParams on a merged master shape
AccumulateWide ==
    /\ pc = "merged"
    /\ tileRank' = 1
    /\ fullWorkAmount' = FullWorkAmountBytes(masterShape)
    /\ pc' = "optimizing"
    /\ UNCHANGED <<phase, err, envVars, shapeVars, collapsedDims,
                   currentJitWorkAmount, planVars, kernelVars, dispVars>>

NextWide == AccumulateWide

SpecWide == InitWide /\ [][NextWide]_vars

\* the exact product of the extents, in 2 * SizeBytes bytes
RECURSIVE ExactProduct(_)
ExactProduct(shape) ==
    IF shape = <<>>
    THEN ToBytes(1, 2 * SizeBytes)
    ELSE Multiplies(ToBytes(Head(shape), 2 * SizeBytes), ExactProduct(Tail(shape)))

FitsSizeT(wide) == \A k \in (SizeBytes + 1)..Len(wide) : wide[k] = 0

(***************************************************************************)
(* C18 as stated: fullWorkAmount computed in prepareParams is the exact    *)
(* product of the master shape's extents whenever that product fits in an  *)
(* unsigned 64-bit integer, products of 2^31 and above included.           *)
(***************************************************************************)
C18_Original ==
    pc = "optimizing" /\ FitsSizeT(ExactProduct(masterShape)) =>
        fullWorkAmount = SubSeq(ExactProduct(masterShape), 1, SizeBytes)

(***************************************************************************)
(* Shapes with zero extents.  The specification SpecZero runs the same     *)
(* operations on live shapes whose extents may be 0.                       *)
(***************************************************************************)
MaxZeroRank == 2

ZeroShapeSet ==
    (UNION {[1..r -> 0..MaxDim] : r \in 1..MaxZeroRank})
        \cup {WideShape(h, s) : h \in {0, MaxDim}, s \in [1..2 -> {0, MaxDim}]}

InitZero == InitOver(ZeroShapeSet)

InferZero == InferOver(ZeroShapeSet)

NextZero ==
    \/ NormalizeShapes
    \/ PrepareShapes
    \/ BeginOptimize
    \/ OptimizeStep
    \/ FinishPrepare
    \/ CreateKernel
    \/ Generate
    \/ InferZero
    \/ Execute
    \/ \E ithr \in 0..(MaxThreads - 1) : RunThread(ithr)
    \/ Barrier

SpecZero == InitZero /\ [][NextZero]_vars

HasZeroExtent(shape) == \E d \in 1..Len(shape) : shape[d] = 0

(***************************************************************************)
(* C19 as stated: for a master shape with a zero extent at any position,   *)
(* the innermost one included, prepareParams completes without a fault     *)
(* (no division by zero), the harness work amount is 0 and the dispatch    *)
(* that follows makes no kernel call.                                      *)
(***************************************************************************)
C19_Original ==
    /\ pc = "failed" /\ HasZeroExtent(masterShape) => err # "ArithmeticFault"
    /\ pc \in {"planned", "dispatch", "executed"} /\ HasZeroExtent(masterShape)
          => harnessWorkAmount = 0 /\ kernelCalls = EmptyBag

====
